---------------------------- MODULE Spec2Model ----------------------------
(***************************************************************************)
(* Model of generate-sxt-dory-params (src/src/main.rs).                    *)
(*                                                                         *)
(* The program is one run of main(): it derives a 32-byte seed, prints a   *)
(* size estimate, generates the Dory public parameters, starts a spinner   *)
(* and a detached thread that rotates "Did you know?" messages, derives    *)
(* the prover setup, saves two .bin files, packs them into a .tar.gz and   *)
(* removes the .bin files.                                                 *)
(*                                                                         *)
(* Two threads are modelled: the main thread (pc) and the reporter thread  *)
(* (rpc).  The steady-tick thread of indicatif only redraws the spinner    *)
(* and writes no state the program reads; it is not modelled.              *)
(*                                                                         *)
(* The test of src/src/tests.rs (harness) unpacks the archive of a run     *)
(* that ended normally, loads both files and rebuilds the prover setup.    *)
(***************************************************************************)
EXTENDS Integers, Sequences, FiniteSets, TLC

(***************************************************************************)
(* Bounds of the model.                                                    *)
(***************************************************************************)
\* small values of nu that are enumerated: 0..MaxNu
MaxNu == 5
\* the reporter draws its index from 0..MaxFacts-1 (the source has 37 facts)
MaxFacts == 2
\* the count of the reporter's wakes after the completion stops here
MaxWakes == 3

(***************************************************************************)
(* Machine words.  nu is a usize (64 bits); it is kept as four 16-bit      *)
(* limbs, most significant first, so that every value of the type can be   *)
(* written down.  `nu as i32` keeps the low 32 bits, two's complement.     *)
(***************************************************************************)
LimbBase == 2 ^ 16
LimbMax == LimbBase - 1
I32Min == -(2 ^ 30) - (2 ^ 30)
I32Max == (2 ^ 30) + ((2 ^ 30) - 1)

Usize(l3, l2, l1, l0) == <<l3, l2, l1, l0>>
UsizeSmall(n) == Usize(0, 0, 0, n)

\* nu + 1 on usize (the largest value has no successor in the type)
UsizeIsMax(n) == \A i \in 1..4 : n[i] = LimbMax
UsizeSucc(n) ==
    IF n[4] < LimbMax THEN Usize(n[1], n[2], n[3], n[4] + 1)
    ELSE IF n[3] < LimbMax THEN Usize(n[1], n[2], n[3] + 1, 0)
    ELSE IF n[2] < LimbMax THEN Usize(n[1], n[2] + 1, 0, 0)
    ELSE Usize(n[1] + 1, 0, 0, 0)

\* nu >= 4 on usize  (main.rs:30)
UsizeGe4(n) == n[1] > 0 \/ n[2] > 0 \/ n[3] > 0 \/ n[4] >= 4

\* true when the value is below 2^16, and then its value is n[4]
UsizeIsSmall(n) == n[1] = 0 /\ n[2] = 0 /\ n[3] = 0

\* `nu as i32` (main.rs:31): truncation to the low 32 bits, read as signed
AsI32(n) ==
    IF n[3] >= LimbBase \div 2
    THEN (n[3] - LimbBase) * LimbBase + n[4]
    ELSE n[3] * LimbBase + n[4]

\* `x - 4` on i32 overflows when x < i32::MIN + 4
SubOverflows(x) == x < I32Min + 4
\* the wrapped result of `x - 4` (release build, no overflow check)
WrappingSub4(x) == IF SubOverflows(x) THEN (x + I32Max) + (I32Max - 2) ELSE x - 4

(***************************************************************************)
(* f64 values that the estimator can produce.  A value is 6.3 * 2^exp      *)
(* (multiplying by a power of two is exact while the result is a normal    *)
(* number), +infinity, zero, or a subnormal (rounded) value.               *)
(***************************************************************************)
F64Times63(e) == [kind |-> "finite", exp |-> e]
F64Inf == [kind |-> "inf", exp |-> 0]
F64Zero == [kind |-> "zero", exp |-> 0]
F64Sub(e) == [kind |-> "subnormal", exp |-> e]

\* largest e with 6.3 * 2^e finite: 6.3 * 2^1021 < f64::MAX < 6.3 * 2^1022
F64MaxExp63 == 1021
\* smallest e with 6.3 * 2^e a normal number
F64MinExp63 == -1024

\* base_size * 2_f64.powi(n)  (main.rs:31).  powi(n) is 2^n; it is +inf for
\* n >= 1024 and 0 for n <= -1075.
MulBasePowi(n) ==
    IF n > F64MaxExp63 THEN F64Inf
    ELSE IF n <= -1075 THEN F64Zero
    ELSE IF n < F64MinExp63 THEN F64Sub(n)
    ELSE F64Times63(n)

\* 2.0 * x on these values
F64Double(x) ==
    IF x.kind = "finite" THEN MulBasePowi(x.exp + 1)
    ELSE IF x.kind = "subnormal" THEN MulBasePowi(x.exp + 1)
    ELSE x

\* fn estimated_file_size(nu: usize) -> f64   (release build: wrapping sub)
base_size == F64Times63(0)
estimated_file_size(n) ==
    IF UsizeGe4(n)
    THEN MulBasePowi(WrappingSub4(AsI32(n)))
    ELSE base_size

\* the debug build panics on `(nu as i32) - 4` when the subtraction overflows
EstimatePanics(n) == UsizeGe4(n) /\ SubOverflows(AsI32(n))

(***************************************************************************)
(* Seed derivation (main.rs:58-64).                                        *)
(***************************************************************************)
\* "SpaceAndTime".bytes()
SeedString == <<83, 112, 97, 99, 101, 65, 110, 100, 84, 105, 109, 101>>
SeedLen == 32

\* variant: the iterator is cut one element early
ChainZerosTake_Short(s, n) ==
    [i \in 1..(n - 1) |-> IF i <= Len(s) THEN s[i] ELSE 0]

\* s.chain(repeat(0u8)).take(n).collect::<Vec<_>>()
ChainZerosTake(s, n) == [i \in 1..n |-> IF i <= Len(s) THEN s[i] ELSE 0]

\* Vec<u8> -> [u8; 32]: Ok exactly when the vector has 32 elements
TryIntoOk(v) == Len(v) = SeedLen

seed_vec == ChainZerosTake(SeedString, SeedLen)

(***************************************************************************)
(* The external generator: ChaCha20Rng::from_seed, PublicParameters::rand, *)
(* ProverSetup::from, blitzar_handle().  They are deterministic functions  *)
(* of their arguments; the values record the arguments.                    *)
(***************************************************************************)
NoValue == [kind |-> "none"]

from_seed(seed) == [kind |-> "rng", seed |-> seed, pos |-> 0]
rand(n, r) == [kind |-> "params", nu |-> n, seed |-> r.seed, pos |-> r.pos]
rng_after_rand(r) == [r EXCEPT !.pos = r.pos + 1]
ProverSetupFrom(pp) == [kind |-> "setup", params |-> pp]
blitzar_handle(ps) == [kind |-> "handle", params |-> ps.params]

(***************************************************************************)
(* Files of the working directory.                                         *)
(***************************************************************************)
PP == "public_parameters.bin"
BH == "blitzar_handle.bin"
TGZ == "dory-params.tar.gz"
Files == {PP, BH, TGZ}

Absent == [kind |-> "absent"]
\* content left by something before this run
Old == [kind |-> "old"]
\* content left by a write that failed part-way
Partial == [kind |-> "partial"]
FileOf(v) == [kind |-> "file", data |-> v]
\* the archive file: the tar entries written so far, whether the tar footer
\* was written, and whether the gzip stream was finished (trailer written)
Archive(entries, footer, gz) ==
    [kind |-> "archive", entries |-> entries, footer |-> footer, gz |-> gz]

Exists(f, name) == f[name].kind # "absent"

\* the values of nu that are tried: the small ones, the default, and the
\* values around the edges of i32 and f64
DefaultNu == 15
NuInputs ==
    {UsizeSmall(n) : n \in 0..MaxNu}
    \cup {UsizeSmall(DefaultNu), UsizeSmall(1025), UsizeSmall(1026),
          Usize(0, 0, 32767, 65535), Usize(0, 0, 32768, 0),
          Usize(0, 0, 65535, 65535), Usize(0, 1, 0, 4),
          Usize(65535, 65535, 65535, 65535)}

VARIABLES
    nu,                 \* args.nu
    pc,                 \* position of the main thread
    seed_bytes,         \* the seed array, once built
    rng,                \* the ChaCha20Rng
    estimated_size_mb,  \* the printed estimate
    public_parameters,
    prover_setup,
    finished,           \* spinner.is_finished()
    message,            \* the spinner's message
    rpc,                \* position of the reporter thread
    fact_index,
    fs,                 \* the working directory
    compression_message,
    stdout,             \* lines printed by println!
    harness,            \* the test of tests.rs, run after the program
    hist                \* history of the run (not program state)

vars == <<nu, pc, seed_bytes, rng, estimated_size_mb, public_parameters,
          prover_setup, finished, message, rpc, fact_index, fs,
          compression_message, stdout, harness, hist>>

mainData == <<nu, seed_bytes, rng, estimated_size_mb, public_parameters,
              prover_setup>>
spinnerVars == <<finished, message>>
reporterVars == <<rpc, fact_index>>

Terminal == {"done", "aborted", "panicked"}

\* the reporter's state machine: not yet spawned, Running (anywhere in the
\* loop of main.rs:97-110) or Finished (the loop was left)
RunningStates == {"check", "draw", "set_message", "sleep"}
ReporterState(r) ==
    IF r \in RunningStates THEN "Running"
    ELSE IF r = "exited" THEN "Finished"
    ELSE "unspawned"

\* history: how often and by whom the completion status was written, what
\* was handed to rand, the reporter's state when rand and from began, the
\* files the run removed, the directory at the start of the run and at the
\* start of archiving, and which stage failed
InitHist ==
    [finish_writes |-> 0,
     finish_writers |-> {},
     rand_args |-> NoValue,
     rpc_at_rand |-> "never",
     rpc_at_from |-> "never",
     removed |-> {},
     fs_at_start |-> [f \in Files |-> Absent],
     fs_at_archive |-> [f \in Files |-> Absent],
     save_failed |-> FALSE,
     archive_failed |-> FALSE,
     remove_failed |-> FALSE,
     wakes_after_finish |-> 0]

\* the test before it runs: its position, the result of unpacking, the names
\* unpacked, and the values it loaded
InitHarness ==
    [pc |-> "idle",
     unpack |-> "none",
     extracted |-> <<>>,
     public_parameters |-> NoValue,
     blitzar_handle |-> NoValue,
     prover_setup |-> NoValue]

Init ==
    /\ nu \in NuInputs
    /\ pc = "start"
    /\ seed_bytes = <<>>
    /\ rng = NoValue
    /\ estimated_size_mb = NoValue
    /\ public_parameters = NoValue
    /\ prover_setup = NoValue
    /\ finished = FALSE
    /\ message = "none"
    /\ rpc = "unspawned"
    /\ fact_index = 0
    /\ fs \in [Files -> {Absent, Old}]
    /\ compression_message = "none"
    /\ stdout = <<>>
    /\ harness = InitHarness
    /\ hist = [InitHist EXCEPT !.fs_at_start = fs]


Emit(line) == stdout' = Append(stdout, line)

(***************************************************************************)
(* The main thread.                                                        *)
(***************************************************************************)
\* main.rs:51-55  print_banner(), Args::parse(), facts()
Start ==
    /\ pc = "start"
    /\ Emit("banner")
    /\ pc' = "seed"
    /\ UNCHANGED <<harness, mainData, spinnerVars, reporterVars, fs,
                   compression_message, hist>>

\* main.rs:58-65  the seed array and the seeded generator; expect() panics
\* when the vector is not 32 long
DeriveSeed ==
    /\ pc = "seed"
    /\ IF TryIntoOk(seed_vec)
       THEN /\ seed_bytes' = seed_vec
            /\ rng' = from_seed(seed_vec)
            /\ pc' = "estimate"
       ELSE /\ pc' = "panicked"
            /\ UNCHANGED <<harness, seed_bytes, rng>>
    /\ UNCHANGED <<harness, nu, estimated_size_mb, public_parameters, prover_setup,
                   spinnerVars, reporterVars, fs, compression_message,
                   stdout, hist>>

\* main.rs:68-72  the estimate is computed and printed
Estimate ==
    /\ pc = "estimate"
    /\ estimated_size_mb' = estimated_file_size(nu)
    /\ Emit("estimate")
    /\ pc' = "rand"
    /\ UNCHANGED <<harness, nu, seed_bytes, rng, public_parameters, prover_setup,
                   spinnerVars, reporterVars, fs, compression_message, hist>>

\* main.rs:31  a build with overflow checks panics in `(nu as i32) - 4`
EstimateOverflow ==
    /\ pc = "estimate"
    /\ EstimatePanics(nu)
    /\ pc' = "panicked"
    /\ UNCHANGED <<harness, mainData, spinnerVars, reporterVars, fs,
                   compression_message, stdout, hist>>

\* variant: the parameters are saved as soon as they are generated
GenerateParams_SavesEarly ==
    /\ pc = "rand"
    /\ public_parameters' = rand(nu, rng)
    /\ rng' = rng_after_rand(rng)
    /\ hist' = [hist EXCEPT !.rand_args = [nu |-> nu, rng |-> rng],
                            !.rpc_at_rand = ReporterState(rpc)]
    /\ fs' = [fs EXCEPT ![PP] = FileOf(rand(nu, rng))]
    /\ pc' = "spinner"
    /\ UNCHANGED <<harness, nu, seed_bytes, estimated_size_mb, prover_setup,
                   spinnerVars, reporterVars, compression_message, stdout>>

\* main.rs:75  PublicParameters::rand(args.nu, &mut rng)
GenerateParams ==
    /\ pc = "rand"
    /\ public_parameters' = rand(nu, rng)
    /\ rng' = rng_after_rand(rng)
    /\ hist' = [hist EXCEPT !.rand_args = [nu |-> nu, rng |-> rng],
                            !.rpc_at_rand = ReporterState(rpc)]
    /\ pc' = "spinner"
    /\ UNCHANGED <<harness, nu, seed_bytes, estimated_size_mb, prover_setup,
                   spinnerVars, reporterVars, fs, compression_message,
                   stdout>>

\* main.rs:75  the generator fails (it returns no Result: a panic or abort)
GenerateFails ==
    /\ pc = "rand"
    /\ hist' = [hist EXCEPT !.rpc_at_rand = ReporterState(rpc)]
    /\ pc' = "panicked"
    /\ UNCHANGED <<harness, mainData, spinnerVars, reporterVars, fs,
                   compression_message, stdout>>

\* main.rs:78-91  the spinner and its first message
StartSpinner ==
    /\ pc = "spinner"
    /\ finished' = FALSE
    /\ message' = "initial"
    /\ pc' = "spawn"
    /\ UNCHANGED <<harness, mainData, reporterVars, fs, compression_message, stdout,
                   hist>>

\* main.rs:94-96  thread::spawn of the reporter
SpawnReporter ==
    /\ pc = "spawn"
    /\ rpc' = "check"
    /\ pc' = "from"
    /\ UNCHANGED <<harness, mainData, spinnerVars, fact_index, fs,
                   compression_message, stdout, hist>>

\* main.rs:113  ProverSetup::from(&public_parameters)
DeriveSetup ==
    /\ pc = "from"
    /\ prover_setup' = ProverSetupFrom(public_parameters)
    /\ hist' = [hist EXCEPT !.rpc_at_from = ReporterState(rpc)]
    /\ pc' = "finish"
    /\ UNCHANGED <<harness, nu, seed_bytes, rng, estimated_size_mb, public_parameters,
                   spinnerVars, reporterVars, fs, compression_message,
                   stdout>>

\* main.rs:113  the derivation fails (panic or abort)
DeriveFails ==
    /\ pc = "from"
    /\ hist' = [hist EXCEPT !.rpc_at_from = ReporterState(rpc)]
    /\ pc' = "panicked"
    /\ UNCHANGED <<harness, mainData, spinnerVars, reporterVars, fs,
                   compression_message, stdout>>

\* variant: the main thread joins the reporter before finishing the spinner
FinishSpinner_AfterJoin ==
    /\ pc = "finish"
    /\ rpc = "exited"
    /\ finished' = TRUE
    /\ message' = "complete"
    /\ hist' = [hist EXCEPT !.finish_writes = hist.finish_writes + 1,
                            !.finish_writers = hist.finish_writers \cup {"main"}]
    /\ Emit("generated")
    /\ pc' = "save"
    /\ UNCHANGED <<harness, mainData, reporterVars, fs, compression_message>>

\* main.rs:116-118  spinner.finish_with_message and the duration line
FinishSpinner ==
    /\ pc = "finish"
    /\ finished' = TRUE
    /\ message' = "complete"
    /\ hist' = [hist EXCEPT !.finish_writes = hist.finish_writes + 1,
                            !.finish_writers = hist.finish_writers \cup {"main"}]
    /\ Emit("generated")
    /\ pc' = "save"
    /\ UNCHANGED <<harness, mainData, reporterVars, fs, compression_message>>

(***************************************************************************)
(* The reporter thread (main.rs:96-111).  It lives while the process does. *)
(***************************************************************************)
Alive == pc \notin Terminal

\* variant: the loop does not test the status
ReporterCheck_NoTest ==
    /\ Alive
    /\ rpc = "check"
    /\ rpc' = "draw"
    /\ UNCHANGED <<harness, pc, mainData, spinnerVars, fact_index, fs,
                   compression_message, stdout, hist>>

\* main.rs:97  while !spinner_clone.is_finished()
ReporterCheck ==
    /\ Alive
    /\ rpc = "check"
    /\ rpc' = IF finished THEN "exited" ELSE "draw"
    /\ UNCHANGED <<harness, pc, mainData, spinnerVars, fact_index, fs,
                   compression_message, stdout, hist>>

\* variant: the index is drawn from the seeded generator
ReporterDraw_SharedRng ==
    /\ Alive
    /\ rpc = "draw"
    /\ fact_index' \in 0..(MaxFacts - 1)
    /\ rng' = rng_after_rand(rng)
    /\ rpc' = "set_message"
    /\ UNCHANGED <<harness, pc, nu, seed_bytes, estimated_size_mb, public_parameters,
                   prover_setup, spinnerVars, fs, compression_message,
                   stdout, hist>>

\* main.rs:99-100  rand::thread_rng().gen_range(0..space_facts.len())
ReporterDraw ==
    /\ Alive
    /\ rpc = "draw"
    /\ fact_index' \in 0..(MaxFacts - 1)
    /\ rpc' = "set_message"
    /\ UNCHANGED <<harness, pc, mainData, spinnerVars, fs, compression_message,
                   stdout, hist>>

\* variant: setting the message also resets the spinner's status
ReporterSetMessage_Resets ==
    /\ Alive
    /\ rpc = "set_message"
    /\ message' = "fact"
    /\ finished' = FALSE
    /\ rpc' = "sleep"
    /\ UNCHANGED <<harness, pc, mainData, fact_index, fs, compression_message,
                   stdout, hist>>

\* main.rs:103-106  spinner_clone.set_message(".. Did you know? ..")
ReporterSetMessage ==
    /\ Alive
    /\ rpc = "set_message"
    /\ message' = "fact"
    /\ rpc' = "sleep"
    /\ UNCHANGED <<harness, pc, mainData, finished, fact_index, fs,
                   compression_message, stdout, hist>>

\* main.rs:109  thread::sleep(fact_interval) returns
ReporterWake ==
    /\ Alive
    /\ rpc = "sleep"
    /\ rpc' = "check"
    /\ hist' = [hist EXCEPT !.wakes_after_finish =
                    IF finished /\ @ < MaxWakes THEN @ + 1 ELSE @]
    /\ UNCHANGED <<harness, pc, mainData, spinnerVars, fact_index, fs,
                   compression_message, stdout>>

Reporter ==
    \/ ReporterCheck
    \/ ReporterDraw
    \/ ReporterSetMessage
    \/ ReporterWake


(***************************************************************************)
(* Saving, archiving and cleanup (main.rs:120-169).                        *)
(***************************************************************************)
\* main.rs:120-122  public_parameters.save_to_file(..) returns Ok
SaveParams ==
    /\ pc = "save"
    /\ fs' = [fs EXCEPT ![PP] = FileOf(public_parameters)]
    /\ pc' = "write_handle"
    /\ UNCHANGED <<harness, mainData, spinnerVars, reporterVars, compression_message,
                   stdout, hist>>

\* variant: the Err arm falls through to the handle write
SaveParamsFails_FallsThrough ==
    /\ pc = "save"
    /\ fs' \in {fs, [fs EXCEPT ![PP] = Partial]}
    /\ hist' = [hist EXCEPT !.save_failed = TRUE]
    /\ pc' = "write_handle"
    /\ UNCHANGED <<harness, mainData, spinnerVars, reporterVars, compression_message,
                   stdout>>

\* main.rs:120-121  save_to_file returns Err; the file is untouched or holds
\* what the failed write left
SaveParamsFails ==
    /\ pc = "save"
    /\ fs' \in {fs, [fs EXCEPT ![PP] = Partial]}
    /\ hist' = [hist EXCEPT !.save_failed = TRUE]
    /\ pc' = "save_failed"
    /\ UNCHANGED <<harness, mainData, spinnerVars, reporterVars, compression_message,
                   stdout>>

\* main.rs:168  Err(_) => println!("Failed to save parameters, aborting.")
ReportSaveFailure ==
    /\ pc = "save_failed"
    /\ Emit("failed_save")
    /\ pc' = "aborted"
    /\ UNCHANGED <<harness, mainData, spinnerVars, reporterVars, fs,
                   compression_message, hist>>

\* main.rs:124-126  blitzar_handle.write(file_path).  write() returns
\* nothing: the file is written, or the write fails and the run goes on
WriteHandle ==
    /\ pc = "write_handle"
    /\ fs' \in {[fs EXCEPT ![BH] = FileOf(blitzar_handle(prover_setup))],
                 [fs EXCEPT ![BH] = Partial],
                 fs}
    /\ pc' = "compression_spinner"
    /\ UNCHANGED <<harness, mainData, spinnerVars, reporterVars, compression_message,
                   stdout, hist>>

\* main.rs:126  the call does not return (the library aborts the process)
WriteHandleAborts ==
    /\ pc = "write_handle"
    /\ pc' = "panicked"
    /\ UNCHANGED <<harness, mainData, spinnerVars, reporterVars, fs,
                   compression_message, stdout, hist>>

\* main.rs:129-136  the second spinner
StartCompressionSpinner ==
    /\ pc = "compression_spinner"
    /\ compression_message' = "compressing"
    /\ pc' = "create"
    /\ UNCHANGED <<harness, mainData, spinnerVars, reporterVars, fs, stdout, hist>>

\* main.rs:139-143  File::create truncates or creates the archive; the gzip
\* encoder and the tar builder wrap it
CreateArchive ==
    /\ pc = "create"
    /\ fs' = [fs EXCEPT ![TGZ] = Archive(<<>>, FALSE, "open")]
    /\ hist' = [hist EXCEPT !.fs_at_archive = fs]
    /\ pc' = "append_params"
    /\ UNCHANGED <<harness, mainData, spinnerVars, reporterVars, compression_message,
                   stdout>>

\* main.rs:140  expect("Failed to create tar.gz file") panics
CreateArchiveFails ==
    /\ pc = "create"
    /\ hist' = [hist EXCEPT !.fs_at_archive = fs, !.archive_failed = TRUE]
    /\ pc' = "panicked"
    /\ UNCHANGED <<harness, mainData, spinnerVars, reporterVars, fs,
                   compression_message, stdout>>

\* tar_builder.append_path(name): the entry is stored under the path given
AppendPath(f, name) ==
    [f EXCEPT ![TGZ].entries = Append(@, [name |-> name, data |-> f[name]])]

\* main.rs:146-148
AppendParams ==
    /\ pc = "append_params"
    /\ Exists(fs, PP)
    /\ fs' = AppendPath(fs, PP)
    /\ pc' = "append_handle"
    /\ UNCHANGED <<harness, mainData, spinnerVars, reporterVars, compression_message,
                   stdout, hist>>

\* main.rs:149-151
AppendHandle ==
    /\ pc = "append_handle"
    /\ Exists(fs, BH)
    /\ fs' = AppendPath(fs, BH)
    /\ pc' = "finish_tar"
    /\ UNCHANGED <<harness, mainData, spinnerVars, reporterVars, compression_message,
                   stdout, hist>>

\* main.rs:154-156  tar_builder.finish() writes the tar footer into the
\* encoder; the encoder itself is not finished here
FinishTar ==
    /\ pc = "finish_tar"
    /\ fs' = [fs EXCEPT ![TGZ].footer = TRUE]
    /\ pc' = "compression_done"
    /\ UNCHANGED <<harness, mainData, spinnerVars, reporterVars, compression_message,
                   stdout, hist>>

\* main.rs:148,151,156  one of the three expect()s panics: the file is
\* missing or a write fails
ArchiveStepFails ==
    /\ pc \in {"append_params", "append_handle", "finish_tar"}
    /\ hist' = [hist EXCEPT !.archive_failed = TRUE]
    /\ pc' = "unwind"
    /\ UNCHANGED <<harness, mainData, spinnerVars, reporterVars, fs,
                   compression_message, stdout>>

\* main.rs:159  compression_spinner.finish_with_message
CompressionDone ==
    /\ pc = "compression_done"
    /\ compression_message' = "complete"
    /\ pc' = "remove_params"
    /\ UNCHANGED <<harness, mainData, spinnerVars, reporterVars, fs, stdout, hist>>

\* variant: both calls name public_parameters.bin
RemoveFile_SameName(f, name) == [f EXCEPT ![PP] = Absent]

\* fs::remove_file(name) returns Ok
RemoveFile(f, name) == [f EXCEPT ![name] = Absent]

\* main.rs:162-163
RemoveParams ==
    /\ pc = "remove_params"
    /\ Exists(fs, PP)
    /\ fs' = RemoveFile(fs, PP)
    /\ hist' = [hist EXCEPT !.removed = hist.removed \cup {PP}]
    /\ pc' = "remove_handle"
    /\ UNCHANGED <<harness, mainData, spinnerVars, reporterVars, compression_message,
                   stdout>>

\* main.rs:164
RemoveHandle ==
    /\ pc = "remove_handle"
    /\ Exists(fs, BH)
    /\ fs' = RemoveFile(fs, BH)
    /\ hist' = [hist EXCEPT !.removed = hist.removed \cup {BH}]
    /\ pc' = "print_removed"
    /\ UNCHANGED <<harness, mainData, spinnerVars, reporterVars, compression_message,
                   stdout>>

\* variant: the result of remove_file is ignored
RemoveFails_Ignored ==
    /\ pc \in {"remove_params", "remove_handle"}
    /\ hist' = [hist EXCEPT !.remove_failed = TRUE]
    /\ pc' = IF pc = "remove_params" THEN "remove_handle" ELSE "print_removed"
    /\ UNCHANGED <<harness, mainData, spinnerVars, reporterVars, fs,
                   compression_message, stdout>>

\* main.rs:163,164  remove_file returns Err and expect() panics
RemoveFails ==
    /\ pc \in {"remove_params", "remove_handle"}
    /\ hist' = [hist EXCEPT !.remove_failed = TRUE]
    /\ pc' = "unwind"
    /\ UNCHANGED <<harness, mainData, spinnerVars, reporterVars, fs,
                   compression_message, stdout>>

\* main.rs:166
ReportRemoved ==
    /\ pc = "print_removed"
    /\ Emit("removed")
    /\ pc' = "drop"
    /\ UNCHANGED <<harness, mainData, spinnerVars, reporterVars, fs,
                   compression_message, hist>>

\* what dropping the encoder leaves: GzEncoder::drop calls try_finish and
\* discards its result, so the stream is finished or stays as it was
DropOutcomes(f) == {[f EXCEPT ![TGZ].gz = "finished"], f}

\* main.rs:167  the end of the Ok arm drops tar_builder and with it the
\* encoder and the file.  A panic after line 143 drops them while unwinding.
DropBuilder ==
    /\ pc \in {"drop", "unwind"}
    /\ fs' \in DropOutcomes(fs)
    /\ hist' = [hist EXCEPT !.archive_failed =
                                @ \/ fs'[TGZ].gz # "finished"]
    /\ pc' = IF pc = "drop" THEN "done" ELSE "panicked"
    /\ UNCHANGED <<harness, mainData, spinnerVars, reporterVars, compression_message,
                   stdout>>

(***************************************************************************)
(* The test of src/src/tests.rs, run in the same directory after a run     *)
(* that ended normally.  Its steps fail on what the files hold; the        *)
(* filesystem itself is taken to work.                                     *)
(***************************************************************************)
runVars == <<nu, pc, seed_bytes, rng, estimated_size_mb, public_parameters,
             prover_setup, finished, message, rpc, fact_index,
             compression_message, stdout, hist>>

LoadError == [kind |-> "error"]
Garbage == [kind |-> "garbage"]

\* the directory after the first k entries of e were unpacked into it
ExtractPrefix(f, e, k) ==
    [n \in Files |->
        IF \E i \in 1..k : e[i].name = n
        THEN e[CHOOSE i \in 1..k :
                   e[i].name = n /\ \A j \in (i + 1)..k : e[j].name # n].data
        ELSE f[n]]

EntryNames(e) == [i \in 1..Len(e) |-> e[i].name]

UnpackResult(f, res, names) == [fs |-> f, res |-> res, names |-> names]

\* tests.rs:9-15  untar_gz_file: File::open, GzDecoder, Archive::unpack(".").
\* A missing file is an error.  A finished stream unpacks every entry.  A
\* stream that was never finished ends early: the entries before the end
\* are unpacked and the read fails, unless only the trailer is missing.
UnpackOutcomes(f) ==
    LET a == f[TGZ] IN
    IF a.kind = "archive"
    THEN IF a.gz = "finished"
         THEN {UnpackResult(ExtractPrefix(f, a.entries, Len(a.entries)),
                            "ok", EntryNames(a.entries))}
         ELSE {UnpackResult(ExtractPrefix(f, a.entries, Len(a.entries)),
                            "ok", EntryNames(a.entries))}
              \cup {UnpackResult(ExtractPrefix(f, a.entries, k), "err",
                                 SubSeq(EntryNames(a.entries), 1, k)) :
                         k \in 0..Len(a.entries)}
    ELSE {UnpackResult(f, "err", <<>>)}

\* tests.rs:20-21  untar_gz_file(..).expect(..)
HarnessUnpack ==
    /\ pc = "done"
    /\ harness.pc = "idle"
    /\ \E o \in UnpackOutcomes(fs) :
          /\ fs' = o.fs
          /\ harness' = [harness EXCEPT
                            !.unpack = o.res,
                            !.extracted = o.names,
                            !.pc = IF o.res = "ok" THEN "load_params"
                                                  ELSE "failed"]
    /\ UNCHANGED runVars

\* PublicParameters::load_from_file on a file's content
LoadParamsOutcomes(c) ==
    IF c.kind = "file"
    THEN IF c.data.kind = "params" THEN {c.data} ELSE {LoadError}
    ELSE IF c.kind = "old" THEN {Old, LoadError}
    ELSE {LoadError}

\* MsmHandle::new_from_file on a file's content; it returns no Result, so a
\* broken file ends the test or gives a handle that is not the one written
LoadHandleOutcomes(c) ==
    IF c.kind = "file"
    THEN IF c.data.kind = "handle" THEN {c.data} ELSE {LoadError, Garbage}
    ELSE IF c.kind = "old" THEN {Old, LoadError}
    ELSE {LoadError, Garbage}

\* tests.rs:24-26
HarnessLoadParams ==
    /\ harness.pc = "load_params"
    /\ \E v \in LoadParamsOutcomes(fs[PP]) :
          harness' = [harness EXCEPT
                         !.public_parameters = v,
                         !.pc = IF v = LoadError THEN "failed"
                                                 ELSE "load_handle"]
    /\ UNCHANGED <<runVars, fs>>

\* tests.rs:29-30
HarnessLoadHandle ==
    /\ harness.pc = "load_handle"
    /\ \E v \in LoadHandleOutcomes(fs[BH]) :
          harness' = [harness EXCEPT
                         !.blitzar_handle = v,
                         !.pc = IF v = LoadError THEN "failed"
                                                 ELSE "reconstruct"]
    /\ UNCHANGED <<runVars, fs>>

\* ProverSetup::from_public_parameters_and_blitzar_handle
from_public_parameters_and_blitzar_handle(pp, h) ==
    [kind |-> "setup", params |-> pp, handle |-> h]

\* tests.rs:33-36
HarnessReconstruct ==
    /\ harness.pc = "reconstruct"
    /\ harness' = [harness EXCEPT
                      !.prover_setup =
                          from_public_parameters_and_blitzar_handle(
                              harness.public_parameters,
                              harness.blitzar_handle),
                      !.pc = "cleanup"]
    /\ UNCHANGED <<runVars, fs>>

\* tests.rs:39-40  both extracted files are removed
HarnessCleanup ==
    /\ harness.pc = "cleanup"
    /\ fs' = RemoveFile(RemoveFile(fs, PP), BH)
    /\ harness' = [harness EXCEPT !.pc = "passed"]
    /\ UNCHANGED runVars

Harness ==
    \/ HarnessUnpack
    \/ HarnessLoadParams
    \/ HarnessLoadHandle
    \/ HarnessReconstruct
    \/ HarnessCleanup

Main ==
    \/ Start
    \/ DeriveSeed
    \/ Estimate
    \/ EstimateOverflow
    \/ GenerateParams
    \/ GenerateFails
    \/ StartSpinner
    \/ SpawnReporter
    \/ DeriveSetup
    \/ DeriveFails
    \/ FinishSpinner
    \/ SaveParams
    \/ SaveParamsFails
    \/ ReportSaveFailure
    \/ WriteHandle
    \/ WriteHandleAborts
    \/ StartCompressionSpinner
    \/ CreateArchive
    \/ CreateArchiveFails
    \/ AppendParams
    \/ AppendHandle
    \/ FinishTar
    \/ ArchiveStepFails
    \/ CompressionDone
    \/ RemoveParams
    \/ RemoveHandle
    \/ RemoveFails
    \/ ReportRemoved
    \/ DropBuilder

Next == Main \/ Reporter \/ Harness

Spec == Init /\ [][Next]_vars

\* the operating system schedules the main thread; nothing is assumed of
\* the reporter thread
FairSpec == Spec /\ WF_vars(Main)

\* both threads are scheduled; the reporter only while the process is alive
\* (its steps are enabled only then)
FairBothSpec == Spec /\ WF_vars(Main) /\ WF_vars(Reporter)

(***************************************************************************)
(* Properties.                                                             *)
(***************************************************************************)
Printed(line) == \E i \in 1..Len(stdout) : stdout[i] = line

\* the test of tests.rs has not started: the directory is as the run left it
BeforeTest == harness.pc = "idle"

GzFinished == fs[TGZ].kind = "archive" /\ fs[TGZ].gz = "finished"

\* C1: the gzip stream is finished before "Compression complete." is shown
\* and before either .bin file is removed, and a run that ends normally has
\* finished it.
C1_FinalizedBeforeSuccess ==
    /\ compression_message = "complete" => GzFinished
    /\ hist.removed # {} => GzFinished
    /\ pc = "done" => GzFinished

\* C2: the reporter thread is already running when rand begins and when
\* from begins.
C2_ReporterBeforeGenerate ==
    /\ hist.rpc_at_rand # "never" => hist.rpc_at_rand = "Running"
    /\ hist.rpc_at_from # "never" => hist.rpc_at_from = "Running"

\* C3: a run that has ended after printing "Temporary .bin files removed."
\* leaves the archive and neither .bin file.
C3_CleanupInvariant ==
    (pc \in Terminal /\ Printed("removed") /\ BeforeTest) =>
        /\ Exists(fs, TGZ)
        /\ ~Exists(fs, PP)
        /\ ~Exists(fs, BH)

C3_Witness ==
    /\ pc = "done"
    /\ Printed("removed")
    /\ hist.removed = {PP, BH}

\* C4: once saving the parameters has failed, the handle file and the
\* archive are as they were when the run began, up to the end of the run.
C4_FailureContainment ==
    (hist.save_failed /\ BeforeTest) =>
        /\ fs[BH] = hist.fs_at_start[BH]
        /\ fs[TGZ] = hist.fs_at_start[TGZ]
        /\ pc \in {"save_failed", "aborted"}

C4_Witness ==
    /\ pc = "aborted"
    /\ hist.save_failed
    /\ Printed("failed_save")

\* C5: a run in which an archive step failed (create, append, finalize) ends
\* with no .bin file removed and both .bin files as they were when archiving
\* began.
C5_ArchiveFailurePreservesInputs ==
    (pc \in Terminal /\ hist.archive_failed /\ BeforeTest) =>
        /\ hist.removed = {}
        /\ \A f \in {PP, BH} : fs[f] = hist.fs_at_archive[f]

\* C6: the completion status is written at most once, only by the main
\* thread and only after from has returned; it is written once the main
\* thread is past line 116; no step resets it and no reporter step changes it.
C6_StatePart ==
    /\ hist.finish_writes <= 1
    /\ hist.finish_writers \subseteq {"main"}
    /\ finished <=> hist.finish_writes = 1
    /\ finished => prover_setup # NoValue
    /\ finished <=> pc \notin {"start", "seed", "estimate", "rand", "spinner",
                                "spawn", "from", "finish", "panicked"}
                     \/ (pc = "panicked" /\ hist.finish_writes = 1)

C6_ActionPart ==
    /\ finished => finished'
    /\ Reporter => /\ finished' = finished
                   /\ hist'.finish_writes = hist.finish_writes
                   /\ hist'.finish_writers = hist.finish_writers

C6_OneWaySignal == [](C6_StatePart) /\ [][C6_ActionPart]_vars

C6_Witness ==
    /\ finished
    /\ rpc = "exited"
    /\ hist.finish_writes = 1

\* C7: with the main thread scheduled and nothing assumed of the reporter,
\* the main thread reaches the end of the run.
C7_MainTerminates == <>(pc \in Terminal)

C7_Witness ==
    /\ pc = "done"
    /\ rpc = "sleep"

\* the seed the identifier gives, written out
ExpectedSeed ==
    <<83, 112, 97, 99, 101, 65, 110, 100, 84, 105, 109, 101,
      0, 0, 0, 0, 0, 0, 0, 0, 0, 0, 0, 0, 0, 0, 0, 0, 0, 0, 0, 0>>

ExpectedRng == [kind |-> "rng", seed |-> ExpectedSeed, pos |-> 0]

\* C8: what is handed to rand, and the parameters file that is saved, depend
\* on nu alone; no reporter step touches the seed or the seeded generator.
C8_StatePart ==
    /\ hist.rand_args # NoValue =>
           hist.rand_args = [nu |-> nu, rng |-> ExpectedRng]
    /\ fs[PP].kind = "file" =>
           fs[PP].data = [kind |-> "params", nu |-> nu,
                          seed |-> ExpectedSeed, pos |-> 0]

C8_ActionPart == Reporter => rng' = rng /\ seed_bytes' = seed_bytes /\ nu' = nu

C8_Determinism == [](C8_StatePart) /\ [][C8_ActionPart]_vars

C8_Witness ==
    /\ fs[PP].kind = "file"
    /\ rpc = "sleep"
    /\ fact_index = MaxFacts - 1

\* 6.3 * 2^(nu - 4) as an f64, for nu >= 4; 6.3 below
IdealEstimate(n) ==
    IF ~UsizeGe4(n) THEN F64Times63(0)
    ELSE IF UsizeIsSmall(n) /\ n[4] - 4 <= F64MaxExp63 THEN F64Times63(n[4] - 4)
    ELSE F64Inf

\* C9: the estimate is 6.3 for nu <= 4, 6.3 * 2^(nu-4) for every nu >= 4, and
\* estimate(nu+1) is twice estimate(nu) for nu >= 4.
C9_SizeLaw ==
    /\ estimated_size_mb # NoValue =>
           estimated_size_mb = IdealEstimate(nu)
    /\ (UsizeGe4(nu) /\ ~UsizeIsMax(nu)) =>
           estimated_file_size(UsizeSucc(nu)) =
               F64Double(estimated_file_size(nu))

\* C10: past line 65 the seed has 32 bytes, the first 12 are the bytes of
\* "SpaceAndTime" and the other 20 are zero; the conversion did not panic.
C10_SeedDerivation ==
    pc \notin {"start", "seed"} =>
        /\ Len(seed_bytes) = 32
        /\ \A i \in 1..12 : seed_bytes[i] = SeedString[i]
        /\ \A i \in 13..32 : seed_bytes[i] = 0
        /\ Len(SeedString) = 12
        /\ rng # NoValue /\ rng.seed = seed_bytes

C10_Witness ==
    /\ pc = "estimate"
    /\ Len(seed_bytes) = 32
    /\ seed_bytes[12] = 101
    /\ seed_bytes[13] = 0

\* C13: until both rand and from have returned, the working directory is as
\* the run found it and the run has removed nothing; so a run that fails in
\* either of them leaves it unchanged.
C13_GenerationWritesNothing ==
    (prover_setup = NoValue /\ BeforeTest) =>
        /\ fs = hist.fs_at_start
        /\ hist.removed = {}

C13_Witness ==
    /\ pc = "panicked"
    /\ public_parameters # NoValue
    /\ prover_setup = NoValue
    /\ fs = [f \in Files |-> Old]

\* C14: once a remove_file has failed the run is on its way to the failure
\* state and never prints "Temporary .bin files removed."; that line is
\* printed only when both .bin files have been removed.
C14_CleanupFailureFatal ==
    /\ hist.remove_failed =>
           /\ pc \in {"unwind", "panicked"}
           /\ ~Printed("removed")
    /\ Printed("removed") =>
           /\ hist.removed = {PP, BH}
           /\ BeforeTest => ~Exists(fs, PP) /\ ~Exists(fs, BH)

C14_Witness ==
    /\ pc = "panicked"
    /\ hist.remove_failed
    /\ hist.removed = {PP}
    /\ Exists(fs, BH)

C15_StatePart == hist.wakes_after_finish <= 1

C15_ActionPart == (ReporterCheck /\ finished) => rpc' = "exited"

C16_FinalMessageStays == finished => message = "complete"

\* C17: the archive file is created or truncated only when both .bin files
\* had been written by this run; a failed handle write leaves the archive as
\* the run found it.
C17_HandleCheckedStage ==
    (BeforeTest /\ fs[TGZ] # hist.fs_at_start[TGZ]) =>
        /\ hist.fs_at_archive[PP] = FileOf(public_parameters)
        /\ hist.fs_at_archive[BH] = FileOf(blitzar_handle(prover_setup))

RunSucceeded == pc = "done" /\ Printed("removed")

HarnessEnded == harness.pc \in {"passed", "failed"}

\* C11: on the archive of a successful run the test ends without error, the
\* values it loaded are the ones the run wrote, and it leaves neither
\* extracted file behind.
C11_RoundTrip ==
    (RunSucceeded /\ HarnessEnded) =>
        /\ harness.pc = "passed"
        /\ harness.public_parameters = public_parameters
        /\ harness.blitzar_handle = blitzar_handle(prover_setup)
        /\ ~Exists(fs, PP)
        /\ ~Exists(fs, BH)

\* C12: the archive of a successful run holds the two entries
\* public_parameters.bin and blitzar_handle.bin and no other, and unpacking
\* it yields exactly these.
C12_ArchiveShape ==
    /\ RunSucceeded =>
           /\ fs[TGZ].kind = "archive"
           /\ EntryNames(fs[TGZ].entries) = <<PP, BH>>
    /\ (RunSucceeded /\ ~BeforeTest) =>
           /\ harness.unpack = "ok"
           /\ harness.extracted = <<PP, BH>>

=============================================================================
